---- MODULE Spec2Model ----
(***************************************************************************)
(* A model of scripts/metrics_trends.py: the day scorer (score_day with    *)
(* its helpers) and the trend aggregation done by main.                    *)
(*                                                                         *)
(* Numbers.  The true value of a Python float expression is held as an    *)
(* exact rational [n, d] in lowest terms; the diagnostics (rates,          *)
(* penalties) are such rationals.  The score, which the code rounds to two *)
(* decimals, is an integer number of hundredths.  Which hundredth          *)
(* round(x, 2) returns depends on the double x and not on the true sum, so *)
(* the score is computed by carrying the doubles out: every operation of   *)
(* score_day is done exactly and rounded to 53 significant bits, ties to   *)
(* even, and the sum is then rounded half to even to hundredths.           *)
(*                                                                         *)
(* JSON values are tagged records [k, v]; k is the JSON shape.             *)
(***************************************************************************)
EXTENDS Integers, Sequences, FiniteSets, TLC

VARIABLES
    m,        \* harness: the day-record handed to score_day
    r1,       \* harness: result of score_day(m)
    r2,       \* harness: result of score_day on m with runSuccess flipped
    spc,      \* harness: position ("start", "scored", "paired")
    files,    \* main: sorted(glob(...)), a sequence of file names
    i,        \* main: number of files the loop has consumed
    seen,     \* main: what load_json returned for each consumed file
    rows,     \* main: the rows list
    pc,       \* main: position in main
    report,   \* main: what was printed ("none", "nodata", "summary")
    latest,   \* main: rows[-1] after the sort
    score7,   \* main: avg of the last seven scores
    worst,    \* main: the three lowest-scoring rows
    written   \* main: the output files written so far

vars == <<m, r1, r2, spc, files, i, seen, rows, pc, report, latest, score7,
          worst, written>>

scoreVars == <<m, r1, r2, spc>>
mainVars == <<files, i, seen, rows, pc, report, latest, score7, worst, written>>

----------------------------------------------------------------------------
(* Rational arithmetic standing for Python float arithmetic.               *)

Abs(x) == IF x < 0 THEN -x ELSE x

RECURSIVE GCD(_, _)
GCD(a, b) == IF b = 0 THEN a ELSE GCD(b, a % b)

Rat(n, d) ==
    LET s == IF d < 0 THEN -1 ELSE 1
        g == GCD(Abs(n), Abs(d))
    IN  [n |-> (s * n) \div g, d |-> (s * d) \div g]

RInt(k) == [n |-> k, d |-> 1]
RAdd(a, b) == Rat(a.n * b.d + b.n * a.d, a.d * b.d)
RSub(a, b) == Rat(a.n * b.d - b.n * a.d, a.d * b.d)
RMul(a, b) == Rat(a.n * b.n, a.d * b.d)
RDiv(a, b) == Rat(a.n * b.d, a.d * b.n)
RLess(a, b) == a.n * b.d < b.n * a.d
RMax(a, b) == IF RLess(a, b) THEN b ELSE a
RMin(a, b) == IF RLess(b, a) THEN b ELSE a

(* the hundredths nearest to x; both neighbours when x is half way         *)
Round2(x) ==
    LET num == 100 * x.n
        fl  == num \div x.d
        rem == num - fl * x.d
    IN  IF 2 * rem < x.d THEN {fl}
        ELSE IF 2 * rem > x.d THEN {fl + 1}
        ELSE {fl, fl + 1}

(* x is a binary fraction *)
RECURSIVE IsPowerOfTwo(_)
IsPowerOfTwo(d) == d = 1 \/ (d % 2 = 0 /\ IsPowerOfTwo(d \div 2))

IsDyadic(x) == IsPowerOfTwo(x.d)

(* clamp(x) returns the bound itself *)
Saturates(x) == RLess(x, RInt(0)) \/ RLess(RInt(1), x)

----------------------------------------------------------------------------
(* IEEE double arithmetic.  A double is [neg, mag]: a sign and a magnitude *)
(* in units of 2^-75, the magnitude a little-endian sequence of Limbs      *)
(* digits in base 2^15.  An operation computes the true result (with a     *)
(* sticky flag for what a division leaves below the last digit) and rounds *)
(* it to MantissaBits significant bits, ties to even.                      *)

LimbBits == 15
LimbBase == 32768
Limbs == 7
FracLimbs == 5
MantissaBits == 53

ZeroMag == [j \in 1..Limbs |-> 0]

RECURSIVE MagAddFrom(_, _, _, _)
MagAddFrom(a, b, j, c) ==
    IF j > Limbs THEN <<>>
    ELSE LET t == a[j] + b[j] + c
         IN  <<t % LimbBase>> \o MagAddFrom(a, b, j + 1, t \div LimbBase)

MagAdd(a, b) == MagAddFrom(a, b, 1, 0)

(* a - b for a >= b *)
RECURSIVE MagSubFrom(_, _, _, _)
MagSubFrom(a, b, j, c) ==
    IF j > Limbs THEN <<>>
    ELSE LET t == a[j] - b[j] - c
         IN  IF t < 0 THEN <<t + LimbBase>> \o MagSubFrom(a, b, j + 1, 1)
             ELSE <<t>> \o MagSubFrom(a, b, j + 1, 0)

MagSub(a, b) == MagSubFrom(a, b, 1, 0)

RECURSIVE MagLessFrom(_, _, _)
MagLessFrom(a, b, j) ==
    IF j = 0 THEN FALSE
    ELSE IF a[j] # b[j] THEN a[j] < b[j]
    ELSE MagLessFrom(a, b, j - 1)

MagLess(a, b) == MagLessFrom(a, b, Limbs)

(* a * k for 0 <= k < LimbBase *)
RECURSIVE MagMulFrom(_, _, _, _)
MagMulFrom(a, k, j, c) ==
    IF j > Limbs THEN <<>>
    ELSE LET t == a[j] * k + c
         IN  <<t % LimbBase>> \o MagMulFrom(a, k, j + 1, t \div LimbBase)

MagMul(a, k) == MagMulFrom(a, k, 1, 0)

(* digits j..1 of a divided by k, 0 < k < LimbBase, r carried in *)
RECURSIVE MagDivFrom(_, _, _, _)
MagDivFrom(a, k, j, r) ==
    IF j = 0 THEN [q |-> <<>>, r |-> r]
    ELSE LET cur == r * LimbBase + a[j]
             rest == MagDivFrom(a, k, j - 1, cur % k)
         IN  [q |-> rest.q \o <<cur \div k>>, r |-> rest.r]

MagDiv(a, k) == MagDivFrom(a, k, Limbs, 0)

RECURSIVE TopLimb(_, _)
TopLimb(a, j) == IF j = 0 THEN 0 ELSE IF a[j] # 0 THEN j ELSE TopLimb(a, j - 1)

RECURSIVE BitLen(_)
BitLen(x) == IF x = 0 THEN 0 ELSE 1 + BitLen(x \div 2)

(* round to nearest, ties to even; sticky: the true value exceeds a *)
RoundMag(a, sticky) ==
    LET t == TopLimb(a, Limbs)
        low == LimbBits * (t - 1) + BitLen(a[t]) - MantissaBits
    IN  IF t = 0 \/ low <= 0 THEN a
        ELSE LET l == low \div LimbBits + 1
                 o == low % LimbBits
                 unit == 2 ^ o
                 lowpart == a[l] % unit
                 kept == a[l] - lowpart
                 Below(j0) == sticky \/ \E j \in 1..(j0 - 1) : a[j] # 0
                 half == IF o > 0 THEN unit \div 2 ELSE LimbBase \div 2
                 rem == IF o > 0 THEN lowpart ELSE a[l - 1]
                 more == IF o > 0 THEN Below(l) ELSE Below(l - 1)
                 odd == (kept \div unit) % 2 = 1
                 up == rem > half \/ (rem = half /\ (more \/ odd))
                 trunc == [j \in 1..Limbs |->
                             IF j < l THEN 0 ELSE IF j = l THEN kept ELSE a[j]]
                 one == [j \in 1..Limbs |-> IF j = l THEN unit ELSE 0]
             IN  IF up THEN MagAdd(trunc, one) ELSE trunc

FNorm(neg, mag) == [neg |-> neg /\ mag # ZeroMag, mag |-> mag]

(* float(k) *)
FInt(k) ==
    [neg |-> k < 0,
     mag |-> [j \in 1..Limbs |->
                IF j = FracLimbs + 1 THEN Abs(k) % LimbBase
                ELSE IF j = FracLimbs + 2 THEN Abs(k) \div LimbBase
                ELSE 0]]

FNeg(x) == FNorm(~x.neg, x.mag)

FAdd(x, y) ==
    IF x.neg = y.neg THEN FNorm(x.neg, RoundMag(MagAdd(x.mag, y.mag), FALSE))
    ELSE IF MagLess(x.mag, y.mag)
    THEN FNorm(y.neg, RoundMag(MagSub(y.mag, x.mag), FALSE))
    ELSE FNorm(x.neg, RoundMag(MagSub(x.mag, y.mag), FALSE))

FSub(x, y) == FAdd(x, FNeg(y))

(* k * x for an integer k *)
FMulInt(k, x) == FNorm(x.neg # (k < 0), RoundMag(MagMul(x.mag, Abs(k)), FALSE))

(* x / k for an integer k # 0 *)
FDivInt(x, k) ==
    LET d == MagDiv(x.mag, Abs(k))
    IN  FNorm(x.neg # (k < 0), RoundMag(d.q, d.r # 0))

(* the double nearest to the rational r: n / d of two ints, a decimal      *)
(* literal                                                                 *)
FRat(r) == FDivInt(FInt(r.n), r.d)

FClamp01(x) ==
    IF x.neg THEN FInt(0)
    ELSE IF MagLess(FInt(1).mag, x.mag) THEN FInt(1)
    ELSE x

(* round(x, 2) in hundredths: the decimal nearest to the double, ties to   *)
(* even                                                                    *)
FRound2(x) ==
    LET a == MagMul(x.mag, 100)
        whole == a[FracLimbs + 1] + LimbBase * a[FracLimbs + 2]
        half == LimbBase \div 2
        more == \E j \in 1..(FracLimbs - 1) : a[j] # 0
        up == a[FracLimbs] > half
                \/ (a[FracLimbs] = half /\ (more \/ whole % 2 = 1))
        val == IF up THEN whole + 1 ELSE whole
    IN  IF x.neg THEN -val ELSE val

----------------------------------------------------------------------------
(* Config / weights                                                        *)

W_run_success == 12
W_tab_completion == 12
W_rss_errors == 10
W_freshness_penalty == 6
W_ai_strict_rate == 25
W_off_topic_penalty == 15
W_duplication_penalty == 10
W_host_diversity == 10

MAX_RSS_ERRORS_FOR_FULL_SCORE == 5
MAX_OFFTOPIC_RATE == Rat(20, 100)
MAX_DUP_RATE == Rat(20, 100)
TARGET_HOST_DIVERSITY == 10

----------------------------------------------------------------------------
(* JSON values                                                             *)

Absent == [k |-> "absent", v |-> 0]     \* key not in the dict
Null == [k |-> "null", v |-> 0]         \* JSON null
JInt(x) == [k |-> "int", v |-> x]
JBool(b) == [k |-> "bool", v |-> IF b THEN 1 ELSE 0]
JStr == [k |-> "str", v |-> 0]          \* a non-numeric string, "abc"
JNumStr(x) == [k |-> "numstr", v |-> x] \* a string holding a number, "36"

(* Python truthiness of a value returned by dict.get *)
Truthy(j) ==
    CASE j.k \in {"int", "bool"} -> j.v # 0
      [] j.k \in {"str", "numstr"} -> TRUE
      [] OTHER -> FALSE

----------------------------------------------------------------------------
(* Helpers                                                                 *)

clamp(x, lo, hi) == RMax(lo, RMin(hi, x))

clamp01(x) == clamp(x, RInt(0), RInt(1))

safe_int(j) == IF j.k \in {"int", "bool", "numstr"} THEN j.v ELSE 0

pct(n, d) == IF d > 0 THEN Rat(n, d) ELSE RInt(0)

IMax(a, b) == IF a < b THEN b ELSE a

RECURSIVE SeqSum(_)
SeqSum(s) == IF s = <<>> THEN 0 ELSE Head(s) + SeqSum(Tail(s))

avg(vals) == IF vals # <<>> THEN Rat(SeqSum(vals), Len(vals)) ELSE RInt(0)

----------------------------------------------------------------------------
(* Tabs.  m.tabs is [k, v]: k = "absent" (get returns the default []),     *)
(* "null" (get returns None) or "list" (v is the list).  A tab entry is    *)
(* [k, fu, sources]: k = "dict" or "nondict"; fu is the JSON value of      *)
(* freshnessUsed; sources is [k, v] like tabs.  A source entry is          *)
(* [k, source]: k = "dict" or "nondict"; source is "" when the key is      *)
(* absent, null or the empty string.                                       *)

TabList(mm) == IF mm.tabs.k = "list" THEN mm.tabs.v ELSE <<>>

SourceList(t) == IF t.sources.k = "list" THEN t.sources.v ELSE <<>>

(* for t in metrics.get("tabs", []): raises on None; t.get raises on a     *)
(* tab that is not a dict                                                  *)
tabs_raise(mm) ==
    \/ mm.tabs.k = "null"
    \/ \E j \in 1..Len(TabList(mm)) : TabList(mm)[j].k = "nondict"

collect_hosts_raises(mm) ==
    \/ tabs_raise(mm)
    \/ \E j \in 1..Len(TabList(mm)) :
          LET t == TabList(mm)[j]
          IN  \/ t.sources.k = "null"
              \/ \E q \in 1..Len(SourceList(t)) : SourceList(t)[q].k = "nondict"

collect_hosts(mm) ==
    LET Named(t) == { q \in 1..Len(SourceList(t)) : SourceList(t)[q].source # "" }
        found == UNION { { SourceList(TabList(mm)[j])[q].source :
                             q \in Named(TabList(mm)[j]) } :
                         j \in 1..Len(TabList(mm)) }
    IN  Cardinality(found)

(* float(h) raises on a non-numeric string                                 *)
freshness_penalty_raises(mm) ==
    \/ tabs_raise(mm)
    \/ \E j \in 1..Len(TabList(mm)) : TabList(mm)[j].fu.k = "str"

RECURSIVE SeqMax(_)
SeqMax(s) == IF Len(s) = 1 THEN s[1] ELSE IMax(Head(s), SeqMax(Tail(s)))

IsReported(t) == Truthy(t.fu)

Over24(h) == h > 24

(* variant: the first stale age is used, not the worst *)
freshness_penalty_first(mm) ==
    LET reported == SelectSeq(TabList(mm), IsReported)
        hours == [j \in 1..Len(reported) |-> reported[j].fu.v]
        over == SelectSeq(hours, Over24)
    IN  IF hours = <<>> THEN RInt(0)
        ELSE IF over = <<>> THEN RInt(0)
        ELSE clamp01(Rat(over[1] - 24, 24))

freshness_penalty(mm) ==
    LET reported == SelectSeq(TabList(mm), IsReported)
        hours == [j \in 1..Len(reported) |-> reported[j].fu.v]
        over == SelectSeq(hours, Over24)
    IN  IF hours = <<>> THEN RInt(0)
        ELSE IF over = <<>> THEN RInt(0)
        ELSE clamp01(Rat(SeqMax(over) - 24, 24))

----------------------------------------------------------------------------
(* Scoring.  A day-record mm is a record of JSON values:                   *)
(* [runSuccess, tabsTotal, thinTabs, noUpdateTabs, rssErrors,              *)
(*  pickedItemsTotal, aiStrictCount, offTopicCount, dupCount, hostCount,   *)
(*  tabs].                                                                 *)

tabs_total(mm) == safe_int(mm.tabsTotal)
thin(mm) == safe_int(mm.thinTabs)
empty(mm) == safe_int(mm.noUpdateTabs)
rss(mm) == safe_int(mm.rssErrors)
picked(mm) == safe_int(mm.pickedItemsTotal)
ai_strict(mm) == safe_int(mm.aiStrictCount)
off(mm) == safe_int(mm.offTopicCount)
dup(mm) == safe_int(mm.dupCount)

hosts(mm) ==
    IF safe_int(mm.hostCount) # 0 THEN safe_int(mm.hostCount) ELSE collect_hosts(mm)

ai_rate(mm) == pct(ai_strict(mm), picked(mm))
off_rate(mm) == pct(off(mm), picked(mm))
(* variant: the denominator is not floored to 1 *)
dup_rate_unfloored(mm) == pct(dup(mm), picked(mm))

dup_rate(mm) == pct(dup(mm), IMax(1, picked(mm)))

(* variant: the weight is granted whatever runSuccess is *)
s_run_ungated(mm) == RInt(W_run_success)

(* Reliability *)
s_run(mm) == RInt(W_run_success * (IF Truthy(mm.runSuccess) THEN 1 ELSE 0))

pen_tabs(mm) ==
    IF tabs_total(mm) # 0
    THEN RDiv(RAdd(RMul(RInt(thin(mm)), Rat(12, 100)),
                   RMul(RInt(empty(mm)), Rat(30, 100))),
              RInt(tabs_total(mm)))
    ELSE RInt(1)

s_tabs(mm) == RMul(RInt(W_tab_completion), clamp01(RSub(RInt(1), pen_tabs(mm))))

s_rss(mm) ==
    RMul(RInt(W_rss_errors),
         clamp01(RSub(RInt(1), Rat(rss(mm), MAX_RSS_ERRORS_FOR_FULL_SCORE * 2))))

s_fresh(mm) == RMul(RInt(W_freshness_penalty), RSub(RInt(1), freshness_penalty(mm)))

(* Quality *)
s_ai(mm) == RMul(RInt(W_ai_strict_rate), ai_rate(mm))

s_off(mm) ==
    RMul(RInt(W_off_topic_penalty),
         RSub(RInt(1), clamp01(RDiv(off_rate(mm), MAX_OFFTOPIC_RATE))))

s_dup(mm) ==
    RMul(RInt(W_duplication_penalty),
         RSub(RInt(1), clamp01(RDiv(dup_rate(mm), MAX_DUP_RATE))))

s_hosts(mm) ==
    RMul(RInt(W_host_diversity), clamp01(Rat(hosts(mm), TARGET_HOST_DIVERSITY)))

score_sum(mm) ==
    RAdd(RAdd(RAdd(RAdd(RAdd(RAdd(RAdd(s_run(mm), s_tabs(mm)), s_rss(mm)),
         s_fresh(mm)), s_ai(mm)), s_off(mm)), s_dup(mm)), s_hosts(mm))

(* rate / MAX_..._RATE clamped.  The quotient by the double 0.2 is carried *)
(* out when its clamped value is known: a binary fraction divided by it is *)
(* five times the fraction exactly, 0.2 / 0.2 is 1, and a quotient outside *)
(* [0, 1] is clamped to the bound.                                         *)
exact_ratio(rate, most) ==
    \/ IsDyadic(rate)
    \/ rate = most
    \/ Saturates(RDiv(rate, most))

f_ratio(rate, most) == FRat(clamp01(RDiv(rate, most)))

(* the doubles of score_day *)
f_s_run(mm) == FInt(s_run(mm).n)

f_pen_tabs(mm) ==
    IF tabs_total(mm) # 0
    THEN FDivInt(FAdd(FMulInt(thin(mm), FRat(Rat(12, 100))),
                      FMulInt(empty(mm), FRat(Rat(30, 100)))),
                 tabs_total(mm))
    ELSE FInt(1)

f_s_tabs(mm) == FMulInt(W_tab_completion, FClamp01(FSub(FInt(1), f_pen_tabs(mm))))

f_s_rss(mm) ==
    FMulInt(W_rss_errors,
            FClamp01(FSub(FInt(1),
                          FRat(Rat(rss(mm), MAX_RSS_ERRORS_FOR_FULL_SCORE * 2)))))

f_s_fresh(mm) ==
    FMulInt(W_freshness_penalty, FSub(FInt(1), FRat(freshness_penalty(mm))))

f_s_ai(mm) == FMulInt(W_ai_strict_rate, FRat(ai_rate(mm)))

f_s_off(mm) ==
    FMulInt(W_off_topic_penalty,
            FSub(FInt(1), f_ratio(off_rate(mm), MAX_OFFTOPIC_RATE)))

f_s_dup(mm) ==
    FMulInt(W_duplication_penalty,
            FSub(FInt(1), f_ratio(dup_rate(mm), MAX_DUP_RATE)))

f_s_hosts(mm) ==
    FMulInt(W_host_diversity, FClamp01(FRat(Rat(hosts(mm), TARGET_HOST_DIVERSITY))))

f_score_sum(mm) ==
    FAdd(FAdd(FAdd(FAdd(FAdd(FAdd(FAdd(f_s_run(mm), f_s_tabs(mm)), f_s_rss(mm)),
         f_s_fresh(mm)), f_s_ai(mm)), f_s_off(mm)), f_s_dup(mm)), f_s_hosts(mm))

(* the counts are small enough for the digits kept, and both quotients by  *)
(* 0.2 are carried out                                                     *)
Small(k) == Abs(k) < 4096

carried_out(mm) ==
    /\ Small(tabs_total(mm)) /\ Small(thin(mm)) /\ Small(empty(mm))
    /\ Small(rss(mm)) /\ Small(picked(mm)) /\ Small(ai_strict(mm))
    /\ Small(off(mm)) /\ Small(dup(mm)) /\ Small(hosts(mm))
    /\ \A j \in 1..Len(TabList(mm)) : Small(TabList(mm)[j].fu.v)
    /\ exact_ratio(off_rate(mm), MAX_OFFTOPIC_RATE)
    /\ exact_ratio(dup_rate(mm), MAX_DUP_RATE)

(* The doubles of score_day are within 2^-40 of the true values (some      *)
(* thirty operations on values below 128, each within 2^-53 of its         *)
(* result).  A true sum of denominator at most 10^5 that is not half way   *)
(* between two hundredths is at least 1 / (2 * 10^7) from half way, so     *)
(* round(x, 2) of the double is the hundredth nearest to the true sum.     *)
decided_by_value(x) == x.d <= 100000 /\ Cardinality(Round2(x)) = 1

(* round(s_run + ... + s_hosts, 2), in hundredths: the hundredth nearest   *)
(* to the true sum where that decides it, else the doubles carried out;    *)
(* where they are not carried out, a sum half way between two hundredths   *)
(* goes either way                                                         *)
score(mm) ==
    LET x == score_sum(mm)
    IN  IF decided_by_value(x) THEN Round2(x)
        ELSE IF carried_out(mm) THEN {FRound2(f_score_sum(mm))}
        ELSE Round2(x)

score_day_raises(mm) ==
    \/ safe_int(mm.hostCount) = 0 /\ collect_hosts_raises(mm)
    \/ freshness_penalty_raises(mm)

dbg(mm) ==
    [tabsTotal |-> tabs_total(mm), thinTabs |-> thin(mm),
     noUpdateTabs |-> empty(mm), rssErrors |-> rss(mm),
     aiStrictRate |-> ai_rate(mm), offTopicRate |-> off_rate(mm),
     dupRate |-> dup_rate(mm), hostCount |-> hosts(mm),
     freshnessPenalty |-> freshness_penalty(mm)]

NoDbg ==
    [tabsTotal |-> 0, thinTabs |-> 0, noUpdateTabs |-> 0, rssErrors |-> 0,
     aiStrictRate |-> RInt(0), offTopicRate |-> RInt(0), dupRate |-> RInt(0),
     hostCount |-> 0, freshnessPenalty |-> RInt(0)]

Raised ==
    [raised |-> TRUE, score |-> 0, dbg |-> NoDbg, s_run |-> RInt(0),
     s_tabs |-> RInt(0)]

(* The outcomes of score_day(mm): an exception, or (score, dbg).  s_run    *)
(* and s_tabs are the locals of those names, kept for inspection.          *)
score_day(mm) ==
    IF score_day_raises(mm) THEN {Raised}
    ELSE { [raised |-> FALSE, score |-> sc, dbg |-> dbg(mm), s_run |-> s_run(mm),
            s_tabs |-> s_tabs(mm)] :
             sc \in score(mm) }

----------------------------------------------------------------------------
(* Day-records handed to score_day.                                        *)

MaxTabs == 2

Host(h) == [k |-> "dict", source |-> h]
BadSource == [k |-> "nondict", source |-> ""]
NoSources == [k |-> "absent", v |-> <<>>]
NullSources == [k |-> "null", v |-> <<>>]
Sources(l) == [k |-> "list", v |-> l]

SourcesValues ==
    {NullSources, Sources(<<>>), Sources(<<Host("a.com")>>),
     Sources(<<Host("a.com"), Host("b.com")>>),
     Sources(<<Host("b.com"), Host(""), Host("b.com")>>),
     Sources(<<Host("c.com"), BadSource>>)}

FreshValues ==
    {Absent, Null, JInt(0), JInt(12), JInt(30), JInt(48), JInt(60),
     JNumStr(36), JStr}

Tab(fu, src) == [k |-> "dict", fu |-> fu, sources |-> src]
BadTab == [k |-> "nondict", fu |-> Absent, sources |-> NoSources]

TabEntries ==
    {Tab(fu, NoSources) : fu \in FreshValues}
      \cup {Tab(Absent, src) : src \in SourcesValues}
      \cup {Tab(JInt(30), Sources(<<Host("a.com")>>)), BadTab}

NoTabs == [k |-> "absent", v |-> <<>>]
NullTabs == [k |-> "null", v |-> <<>>]
Tabs(l) == [k |-> "list", v |-> l]

TabLists == UNION { [1..n -> TabEntries] : n \in 0..MaxTabs }

(* numeric fields vary, two tab collections *)
NumericRecords ==
    [runSuccess : {JBool(TRUE), JBool(FALSE), Absent},
     tabsTotal : {Absent, JInt(-1), JInt(0), JInt(4)},
     thinTabs : {JInt(0), JInt(3)},
     noUpdateTabs : {JInt(0), JInt(2)},
     rssErrors : {JInt(0), JInt(3), JInt(12)},
     pickedItemsTotal : {Null, JInt(-1), JInt(0), JInt(8)},
     aiStrictCount : {JStr, JInt(-1), JInt(3), JInt(9)},
     offTopicCount : {JInt(0), JInt(1), JInt(2)},
     dupCount : {JInt(0), JInt(3)},
     hostCount : {Absent, JInt(0), JInt(12)},
     tabs : {NoTabs, Tabs(<<Tab(JInt(30), NoSources)>>)}]

(* the tab collection varies, the numeric fields are those of a full-score *)
(* day                                                                     *)
TabRecords ==
    [runSuccess : {JBool(TRUE)},
     tabsTotal : {JInt(10)},
     thinTabs : {JInt(0)},
     noUpdateTabs : {JInt(0)},
     rssErrors : {JInt(0)},
     pickedItemsTotal : {JInt(10)},
     aiStrictCount : {JInt(10)},
     offTopicCount : {JInt(0)},
     dupCount : {JInt(0)},
     hostCount : {Absent, JInt(10)},
     tabs : {NullTabs} \cup {Tabs(l) : l \in TabLists}]

DayRecords == NumericRecords \cup TabRecords

EmptyDict ==
    [runSuccess |-> Absent, tabsTotal |-> Absent, thinTabs |-> Absent,
     noUpdateTabs |-> Absent, rssErrors |-> Absent, pickedItemsTotal |-> Absent,
     aiStrictCount |-> Absent, offTopicCount |-> Absent, dupCount |-> Absent,
     hostCount |-> Absent, tabs |-> NoTabs]

NoResult ==
    [raised |-> FALSE, score |-> 0, dbg |-> NoDbg, s_run |-> RInt(0),
     s_tabs |-> RInt(0)]

----------------------------------------------------------------------------
(* Harness: score one record, then the record that differs from it in      *)
(* runSuccess alone.                                                       *)

Flipped(mm) ==
    IF Truthy(mm.runSuccess)
    THEN {[mm EXCEPT !.runSuccess = JBool(FALSE)], [mm EXCEPT !.runSuccess = Absent]}
    ELSE {[mm EXCEPT !.runSuccess = JBool(TRUE)]}

NoRow == [date |-> <<>>, score |-> 0, dbg |-> NoDbg]
NoAvg == [n |-> 0, d |-> 0]

MainIdle ==
    /\ files = <<>> /\ i = 0 /\ seen = <<>> /\ rows = <<>> /\ pc = "idle"
    /\ report = "none" /\ latest = NoRow /\ score7 = NoAvg /\ worst = <<>>
    /\ written = {}

InitScore ==
    /\ m \in DayRecords
    /\ r1 = NoResult /\ r2 = NoResult /\ spc = "start"
    /\ MainIdle

ScoreFirst ==
    /\ spc = "start"
    /\ r1' \in score_day(m)
    /\ spc' = "scored"
    /\ UNCHANGED <<m, r2>>
    /\ UNCHANGED mainVars

ScoreSecond ==
    /\ spc = "scored"
    /\ \E m2 \in Flipped(m) : r2' \in score_day(m2)
    /\ spc' = "paired"
    /\ UNCHANGED <<m, r1>>
    /\ UNCHANGED mainVars

NextScore == ScoreFirst \/ ScoreSecond

SpecScore == InitScore /\ [][NextScore]_vars

----------------------------------------------------------------------------
(* main.  A file name is a sequence of character codes; Python compares    *)
(* strings by code point.                                                  *)

MaxFiles == 9
MaxSkipped == 1

LastWindow == 7
WorstCount == 3

NamePrefix == <<109, 101, 116, 114, 105, 99, 115, 45>>   \* "metrics-"
NameSuffix == <<46, 106, 115, 111, 110>>                 \* ".json"

RECURSIVE StrLess(_, _)
StrLess(a, b) ==
    IF b = <<>> THEN FALSE
    ELSE IF a = <<>> THEN TRUE
    ELSE IF Head(a) # Head(b) THEN Head(a) < Head(b)
    ELSE StrLess(Tail(a), Tail(b))

StartsWith(name, pre) ==
    Len(name) >= Len(pre) /\ SubSeq(name, 1, Len(pre)) = pre

EndsWith(name, suf) ==
    Len(name) >= Len(suf) /\ SubSeq(name, Len(name) - Len(suf) + 1, Len(name)) = suf

(* name[8:-5], or None *)
parse_date_from_filename(name) ==
    IF StartsWith(name, NamePrefix) /\ EndsWith(name, NameSuffix)
    THEN [ok |-> TRUE, date |-> SubSeq(name, 9, Len(name) - 5)]
    ELSE [ok |-> FALSE, date |-> <<>>]

(* Dates of the files a metrics directory may hold, over '-', '1', '2'.    *)
AllDates ==
    << <<49, 45>>, <<>>, <<49>>, <<49, 45, 49>>, <<50>>, <<49, 45, 50>>,
       <<50, 45, 49>>, <<49, 50>>, <<50, 45>>, <<50, 49>>, <<50, 50>> >>

FileName(date) == NamePrefix \o date \o NameSuffix

Front(s) == SubSeq(s, 1, Len(s) - 1)
Last(s) == s[Len(s)]

RECURSIVE InsertName(_, _)
InsertName(s, x) ==
    IF s = <<>> THEN <<x>>
    ELSE IF StrLess(x, Head(s)) THEN <<x>> \o s
    ELSE <<Head(s)>> \o InsertName(Tail(s), x)

(* sorted(glob.glob(...)) *)
RECURSIVE SortedNames(_)
SortedNames(s) == IF s = <<>> THEN <<>> ELSE InsertName(SortedNames(Front(s)), Last(s))

(* list.sort / sorted are stable: an element goes after its equals.        *)
RECURSIVE InsertByDate(_, _)
InsertByDate(s, x) ==
    IF s = <<>> THEN <<x>>
    ELSE IF StrLess(x.date, Head(s).date) THEN <<x>> \o s
    ELSE <<Head(s)>> \o InsertByDate(Tail(s), x)

(* variant: the rows are left in the order the files were read *)
KeepOrder(s) == s

RECURSIVE SortByDate(_)
SortByDate(s) == IF s = <<>> THEN <<>> ELSE InsertByDate(SortByDate(Front(s)), Last(s))

(* variant: an element goes before its equals *)
RECURSIVE InsertBeforeEquals(_, _)
InsertBeforeEquals(s, x) ==
    IF s = <<>> THEN <<x>>
    ELSE IF x.score <= Head(s).score THEN <<x>> \o s
    ELSE <<Head(s)>> \o InsertBeforeEquals(Tail(s), x)

RECURSIVE InsertByScore(_, _)
InsertByScore(s, x) ==
    IF s = <<>> THEN <<x>>
    ELSE IF x.score < Head(s).score THEN <<x>> \o s
    ELSE <<Head(s)>> \o InsertByScore(Tail(s), x)

RECURSIVE SortByScore(_)
SortByScore(s) == IF s = <<>> THEN <<>> ELSE InsertByScore(SortByScore(Front(s)), Last(s))

(* s[-k:] and s[:k] *)
LastK(s, k) == SubSeq(s, IMax(1, Len(s) - k + 1), Len(s))
FirstK(s, k) == SubSeq(s, 1, IF Len(s) < k THEN Len(s) ELSE k)

Scores(s) == [j \in 1..Len(s) |-> s[j].score]

(* What load_json may return for a file: None, or the dict in it.          *)
DayGood ==
    [runSuccess |-> JBool(TRUE), tabsTotal |-> JInt(10), thinTabs |-> JInt(0),
     noUpdateTabs |-> JInt(0), rssErrors |-> JInt(0), pickedItemsTotal |-> JInt(10),
     aiStrictCount |-> JInt(10), offTopicCount |-> JInt(0), dupCount |-> JInt(0),
     hostCount |-> JInt(10), tabs |-> NoTabs]

DayFailed == [DayGood EXCEPT !.runSuccess = JBool(FALSE)]

DayBroken == [DayGood EXCEPT !.tabs = NullTabs]

LoadResults ==
    {[ok |-> FALSE, rec |-> EmptyDict]}
      \cup {[ok |-> TRUE, rec |-> r] : r \in {EmptyDict, DayGood, DayFailed, DayBroken}}

(* not m *)
Falsy(c) == ~c.ok \/ c.rec = EmptyDict

Skipped(s) == Cardinality({j \in 1..Len(s) : s[j].falsy})

Init ==
    /\ \E n \in 0..MaxFiles :
          files = SortedNames([j \in 1..n |-> FileName(AllDates[j])])
    /\ i = 0 /\ seen = <<>> /\ rows = <<>> /\ pc = "loop"
    /\ report = "none" /\ latest = NoRow /\ score7 = NoAvg /\ worst = <<>>
    /\ written = {}
    /\ m = EmptyDict /\ r1 = NoResult /\ r2 = NoResult /\ spc = "idle"

Note(c) == [name |-> files[i + 1], loaded |-> c.ok, falsy |-> Falsy(c)]

(* if not date or not m: continue *)
LoopSkip ==
    /\ pc = "loop" /\ i < Len(files)
    /\ \E c \in LoadResults :
          /\ Falsy(c) => Skipped(seen) < MaxSkipped
          /\ parse_date_from_filename(files[i + 1]).date = <<>> \/ Falsy(c)
          /\ seen' = Append(seen, Note(c))
    /\ i' = i + 1
    /\ UNCHANGED <<files, rows, pc, report, latest, score7, worst, written>>
    /\ UNCHANGED scoreVars

(* score, dbg = score_day(m); rows.append(...) *)
LoopScore ==
    /\ pc = "loop" /\ i < Len(files)
    /\ parse_date_from_filename(files[i + 1]).date # <<>>
    /\ \E c \in LoadResults :
          /\ ~Falsy(c)
          /\ \E r \in score_day(c.rec) :
                /\ ~r.raised
                /\ rows' = Append(rows,
                      [date |-> parse_date_from_filename(files[i + 1]).date,
                       score |-> r.score, dbg |-> r.dbg])
          /\ seen' = Append(seen, Note(c))
    /\ i' = i + 1
    /\ UNCHANGED <<files, pc, report, latest, score7, worst, written>>
    /\ UNCHANGED scoreVars

(* score_day raises: the exception leaves main *)
LoopRaise ==
    /\ pc = "loop" /\ i < Len(files)
    /\ parse_date_from_filename(files[i + 1]).date # <<>>
    /\ \E c \in LoadResults :
          /\ ~Falsy(c)
          /\ \E r \in score_day(c.rec) : r.raised
          /\ seen' = Append(seen, Note(c))
    /\ i' = i + 1
    /\ pc' = "aborted"
    /\ UNCHANGED <<files, rows, report, latest, score7, worst, written>>
    /\ UNCHANGED scoreVars

(* variant: the empty dataset is averaged and reported like any other *)
NoDataAsZero ==
    /\ pc = "loop" /\ i = Len(files)
    /\ rows = <<>>
    /\ score7' = avg(Scores(rows))
    /\ report' = "summary"
    /\ pc' = "done"
    /\ UNCHANGED <<files, i, seen, rows, latest, worst, written>>
    /\ UNCHANGED scoreVars

(* if not rows: print("No metrics files found."); return 0 *)
NoData ==
    /\ pc = "loop" /\ i = Len(files)
    /\ rows = <<>>
    /\ report' = "nodata"
    /\ pc' = "done"
    /\ UNCHANGED <<files, i, seen, rows, latest, score7, worst, written>>
    /\ UNCHANGED scoreVars

(* rows.sort(...); latest; last7; score7; the printed summary with worst   *)
Aggregate ==
    /\ pc = "loop" /\ i = Len(files)
    /\ rows # <<>>
    /\ rows' = SortByDate(rows)
    /\ latest' = Last(rows')
    /\ score7' = avg(Scores(LastK(rows', LastWindow)))
    /\ worst' = FirstK(SortByScore(rows'), WorstCount)
    /\ report' = "summary"
    /\ pc' = "aggregated"
    /\ UNCHANGED <<files, i, seen, written>>
    /\ UNCHANGED scoreVars

(* the three output files *)
WriteFiles ==
    /\ pc = "aggregated"
    /\ written' = {"metrics_trends.csv", "metrics_trends.json", "metrics_report.txt"}
    /\ pc' = "done"
    /\ UNCHANGED <<files, i, seen, rows, report, latest, score7, worst>>
    /\ UNCHANGED scoreVars

Next == LoopSkip \/ LoopScore \/ LoopRaise \/ NoData \/ Aggregate \/ WriteFiles

Spec == Init /\ [][Next]_vars

----------------------------------------------------------------------------
(* Properties of score_day, checked under SpecScore.                       *)

Returned1 == spc \in {"scored", "paired"} /\ ~r1.raised

SumOfWeights ==
    W_run_success + W_tab_completion + W_rss_errors + W_freshness_penalty
      + W_ai_strict_rate + W_off_topic_penalty + W_duplication_penalty
      + W_host_diversity

(* C1: the score of every day-record lies in [0, sum of the weights],      *)
(* with at most 0.01 overshoot from rounding.                              *)
C1_ScoreWithinWeights ==
    Returned1 => r1.score >= 0 /\ r1.score <= 100 * SumOfWeights + 1

(* C2: score_day never raises, however malformed the record.               *)
C2_NeverRaises == spc # "start" => ~r1.raised

(* C3 as stated: with pickedItemsTotal not positive, absent or malformed,  *)
(* all three reported rates are 0.0.                                       *)
C3_AllRatesZero ==
    Returned1 /\ safe_int(m.pickedItemsTotal) <= 0 =>
        /\ r1.dbg.aiStrictRate = RInt(0)
        /\ r1.dbg.offTopicRate = RInt(0)
        /\ r1.dbg.dupRate = RInt(0)

(* C3 amended: with pickedItemsTotal not positive, absent or malformed,    *)
(* aiStrictRate and offTopicRate are 0.0 and dupRate is dupCount / 1, the  *)
(* denominator being floored to 1.                                         *)
C3_RatesAtZeroDenominator ==
    Returned1 /\ safe_int(m.pickedItemsTotal) <= 0 =>
        /\ r1.dbg.aiStrictRate = RInt(0)
        /\ r1.dbg.offTopicRate = RInt(0)
        /\ r1.dbg.dupRate = RInt(safe_int(m.dupCount))

C3_Witness ==
    /\ Returned1
    /\ m.pickedItemsTotal = JInt(0)
    /\ m.aiStrictCount = JInt(9)
    /\ m.dupCount = JInt(3)
    /\ r1.dbg.dupRate = RInt(3)

Paired == spc = "paired" /\ ~r1.raised /\ ~r2.raised

(* the results for the record with runSuccess true and for its twin        *)
OfSuccess == IF Truthy(m.runSuccess) THEN r1 ELSE r2
OfFailure == IF Truthy(m.runSuccess) THEN r2 ELSE r1

AtRoundingTie == Cardinality(Round2(score_sum(m))) = 2

C9_TabTermZeroWithoutTabs ==
    Returned1 =>
        LET total == safe_int(m.tabsTotal)
            p == Rat(12 * safe_int(m.thinTabs) + 30 * safe_int(m.noUpdateTabs),
                     100 * total)
            credit == RSub(RInt(1), p)
        IN  IF total <= 0 THEN r1.s_tabs = RInt(0)
            ELSE r1.s_tabs =
                   RMul(RInt(12), RMax(RInt(0), RMin(RInt(1), credit)))

(* the ages the tabs report: non-null, non-zero freshnessUsed values       *)
Ages ==
    { TabList(m)[j].fu.v :
        j \in { j \in 1..Len(TabList(m)) :
                  /\ TabList(m)[j].fu.k \in {"int", "numstr"}
                  /\ TabList(m)[j].fu.v # 0 } }

WorstAge == CHOOSE a \in Ages : \A b \in Ages : b <= a

(* C10: the freshness penalty is 0.0 when no tab reports an age or no age  *)
(* exceeds 24, and otherwise (worst - 24) / 24 clamped to [0, 1] for the   *)
(* largest age, 1.0 from 48 hours on: a function of the set of ages.       *)
C10_FreshnessIsWorstAge ==
    Returned1 =>
        /\ ~RLess(r1.dbg.freshnessPenalty, RInt(0))
        /\ ~RLess(RInt(1), r1.dbg.freshnessPenalty)
        /\ r1.dbg.freshnessPenalty =
             IF Ages = {} \/ WorstAge <= 24 THEN RInt(0)
             ELSE IF WorstAge >= 48 THEN RInt(1)
             ELSE [n |-> (WorstAge - 24) \div GCD(WorstAge - 24, 24),
                   d |-> 24 \div GCD(WorstAge - 24, 24)]

C10_Witness ==
    /\ Returned1
    /\ Len(TabList(m)) = 2
    /\ TabList(m)[1].fu = JNumStr(36)
    /\ TabList(m)[2].fu = JInt(30)
    /\ r1.dbg.freshnessPenalty = [n |-> 1, d |-> 2]

----------------------------------------------------------------------------
(* Properties of main, checked under Spec.                                 *)

Range(s) == {s[j] : j \in 1..Len(s)}

Aggregated == pc \in {"aggregated", "done"} /\ rows # <<>>

(* C5: when no file yields a scored day the run reports "no data" and      *)
(* stops: no latest entry, no trailing average, no worst list, no summary  *)
(* and no output file.                                                     *)
C5_NoDataStops ==
    rows = <<>> =>
        /\ pc \in {"loop", "aborted", "done"}
        /\ pc = "done" => report = "nodata"
        /\ report # "summary"
        /\ latest = NoRow /\ score7 = NoAvg /\ worst = <<>>
        /\ written = {}

C5_Witness ==
    /\ pc = "done" /\ rows = <<>>
    /\ Len(files) = 2 /\ Len(seen) = 2
    /\ report = "nodata"

(* C6: the dataset holds exactly one row for each file that could be       *)
(* loaded and whose name gives a date, none for any other file, and the    *)
(* run is never aborted.                                                   *)
C6_OneRowPerLoadableFile ==
    /\ pc # "aborted"
    /\ \A j \in 1..Len(seen) :
          LET d == parse_date_from_filename(seen[j].name).date
          IN  Cardinality({q \in 1..Len(rows) : rows[q].date = d})
                = IF seen[j].loaded /\ d # <<>> THEN 1 ELSE 0

(* C7: the worst list is the first three rows of the date-ascending        *)
(* dataset stably sorted by score: scores non-decreasing, no row outside   *)
(* it scores lower than a row inside it, and among equal scores the        *)
(* earlier date comes first and is preferred.                              *)
C7_WorstIsStableLowest ==
    Aggregated =>
        /\ Len(worst) = IF Len(rows) < 3 THEN Len(rows) ELSE 3
        /\ Range(worst) \subseteq Range(rows)
        /\ \A j, k \in 1..Len(worst) :
              j < k => \/ worst[j].score < worst[k].score
                       \/ /\ worst[j].score = worst[k].score
                          /\ StrLess(worst[j].date, worst[k].date)
        /\ \A w \in Range(worst) : \A r \in Range(rows) \ Range(worst) :
              \/ w.score < r.score
              \/ w.score = r.score /\ StrLess(w.date, r.date)

C7_Witness ==
    /\ pc = "done"
    /\ Len(rows) >= 4
    /\ rows[1].score < rows[2].score /\ rows[3].score = rows[1].score
    /\ worst[1] = rows[1] /\ worst[2] = rows[3]
    /\ worst[2].score < worst[3].score
    /\ \E r \in Range(rows) \ Range(worst) : r.score = worst[3].score

RECURSIVE SumScores(_)
SumScores(S) ==
    IF S = {} THEN 0
    ELSE LET r == CHOOSE r \in S : TRUE IN r.score + SumScores(S \ {r})

(* the rows with fewer than seven later dates *)
Trailing == {r \in Range(rows) :
               Cardinality({q \in Range(rows) : StrLess(r.date, q.date)}) < 7}

(* C8: the trailing average is the mean of the scores of the min(7, n)     *)
(* rows with the greatest dates, the mean of all when n < 7, and the       *)
(* latest entry is the row with the greatest date.                         *)
C8_TrailingAverage ==
    Aggregated =>
        /\ Cardinality(Trailing) = IF Len(rows) < 7 THEN Len(rows) ELSE 7
        /\ score7.d # 0
        /\ score7.n * Cardinality(Trailing) = SumScores(Trailing) * score7.d
        /\ latest \in Range(rows)
        /\ \A q \in Range(rows) : ~StrLess(latest.date, q.date)

C8_Witness ==
    /\ pc = "done"
    /\ Len(rows) = 8
    /\ score7.n * 8 # SumScores(Range(rows)) * score7.d
    /\ score7 # RInt(latest.score)

====
